---- MODULE Spec2Model ----
(***************************************************************************)
(* Model of the wyag-rust object store (src/src/lib.rs): object_write,     *)
(* object_read, hash-object, log, and the header / KVLM parsers.           *)
(*                                                                         *)
(* Byte strings are sequences of byte values.  Rust indices are 0-based    *)
(* and are kept 0-based here (At, Slice); a Rust panic (unwrap on None or  *)
(* Err, slice out of range, failed assert) is the outcome "Panic".         *)
(***************************************************************************)
EXTENDS Integers, Sequences, FiniteSets, TLC

VARIABLES store, work, last, input

vars == <<store, work, last, input>>

\* ------------------------------------------------------------------ bounds
\* Number of hex characters of a digest string in the model (40 in git).
HashHexLen == 4
\* Longest free part of a raw buffer handed to the parsers.
MaxTail == 4

\* ------------------------------------------------------------- byte values
NUL == 0
NL == 10
SP == 32

\* "hello\n"
Hello == <<104, 101, 108, 108, 111, 10>>
\* "objects"
ObjectsName == <<111, 98, 106, 101, 99, 116, 115>>
\* "TODO FIXME"
TodoFixme == <<84, 79, 68, 79, 32, 70, 73, 88, 77, 69>>
\* "parent", "parents", "tree", "" as KVLM keys
KeyParent == <<112, 97, 114, 101, 110, 116>>
KeyParents == <<112, 97, 114, 101, 110, 116, 115>>
KeyTree == <<116, 114, 101, 101>>
KeyMessage == <<>>

\* GitObject::fmt of the four variants, and a name that is none of them
FmtBlob == <<98, 108, 111, 98>>
FmtTree == <<116, 114, 101, 101>>
FmtCommit == <<99, 111, 109, 109, 105, 116>>
FmtTag == <<116, 97, 103>>
FmtBlub == <<98, 108, 117, 98>>

None == -1

\* ---------------------------------------------------------- slice helpers
Min(S) == CHOOSE x \in S : \A y \in S : x <= y

\* raw[i]
At(s, i) == s[i + 1]

\* raw[a..b]; the caller checks a <= b <= len first (Rust panics otherwise)
Slice(s, a, b) == SubSeq(s, a + 1, b)

SliceOk(s, a, b) == a <= b /\ b <= Len(s)

\* raw.iter().skip(start).position(|&r| r == byte): index RELATIVE to start
Position(s, start, byte) ==
    LET idxs == {i \in start..(Len(s) - 1) : At(s, i) = byte}
    IN IF idxs = {} THEN None ELSE Min(idxs) - start

\* str::from_utf8 succeeds; the model's bytes are ASCII or 0xFF, and 0xFF
\* never occurs in well-formed UTF-8
Utf8Valid(s) == \A i \in 1..Len(s) : s[i] < 128

IsDigit(b) == b >= 48 /\ b <= 57

RECURSIVE DigitsValue(_)
DigitsValue(s) ==
    IF s = <<>> THEN 0
    ELSE 10 * DigitsValue(SubSeq(s, 1, Len(s) - 1)) + (s[Len(s)] - 48)

\* str::parse::<usize>: optional leading '+', then one or more ASCII digits;
\* no whitespace is skipped.  None when the text is not a number.
ParseUsize(s) ==
    LET body == IF Len(s) > 0 /\ s[1] = 43 THEN Tail(s) ELSE s
    IN IF body = <<>> \/ \E i \in 1..Len(body) : ~IsDigit(body[i])
       THEN None
       ELSE DigitsValue(body)

RECURSIVE ToDecimal(_)
\* usize::to_string
ToDecimal(n) ==
    IF n < 10 THEN <<48 + n>> ELSE ToDecimal(n \div 10) \o <<48 + (n % 10)>>

\* str::replace(from, to) for a one-byte `from`
RECURSIVE ReplaceByte(_, _, _)
ReplaceByte(s, from, to) ==
    IF s = <<>> THEN <<>>
    ELSE (IF s[1] = from THEN to ELSE <<s[1]>>) \o ReplaceByte(Tail(s), from, to)

\* str::replace("\n ", "\n")
RECURSIVE ReplaceNlSp(_)
ReplaceNlSp(s) ==
    IF Len(s) < 2 THEN s
    ELSE IF s[1] = NL /\ s[2] = SP
         THEN <<NL>> \o ReplaceNlSp(SubSeq(s, 3, Len(s)))
         ELSE <<s[1]>> \o ReplaceNlSp(Tail(s))

\* ------------------------------------------------------------- results
Ok(v) == [tag |-> "Ok", val |-> v]
Err(m) == [tag |-> "Err", msg |-> m]
Panic(m) == [tag |-> "Panic", msg |-> m]

\* --------------------------------------------------------- sha1 and zlib
HexChar(n) == IF n < 10 THEN 48 + n ELSE 87 + n

RECURSIVE HashFold(_, _)
HashFold(h, s) ==
    IF s = <<>> THEN h
    ELSE HashFold((h * 33 + s[1] + 1) % (16 ^ HashHexLen), Tail(s))

RECURSIVE ToHex(_, _)
ToHex(n, width) ==
    IF width = 0 THEN <<>>
    ELSE ToHex(n \div 16, width - 1) \o <<HexChar(n % 16)>>

\* crypto::sha1 input + result_str: a deterministic function of the whole
\* buffer, rendered as lowercase hex of fixed width
Sha1Hex(bytes) == ToHex(HashFold(7, bytes), HashHexLen)

RECURSIVE ByteSum(_)
ByteSum(s) == IF s = <<>> THEN 1 ELSE (s[1] + ByteSum(Tail(s))) % 251

\* ZlibEncoder write_all + finish: two header bytes, the payload, a checksum
ZlibEncode(bytes) == <<120, 156>> \o bytes \o <<ByteSum(bytes)>>

\* The whole stream inflated by a ZlibDecoder, or an error
ZlibInflate(raw) ==
    IF Len(raw) < 3 \/ raw[1] # 120 \/ raw[2] # 156
    THEN Err("corrupt deflate stream")
    ELSE LET payload == SubSeq(raw, 3, Len(raw) - 1)
         IN IF raw[Len(raw)] # ByteSum(payload)
            THEN Err("corrupt deflate stream")
            ELSE Ok(payload)

\* Read::read_exact on a ZlibDecoder into a buffer of n bytes: fills exactly
\* n bytes; with n = 0 it returns at once without reading the stream
ReadExact(raw, n) ==
    IF n = 0 THEN Ok(<<>>)
    ELSE LET inf == ZlibInflate(raw)
         IN IF inf.tag = "Err" THEN inf
            ELSE IF Len(inf.val) < n THEN Err("failed to fill whole buffer")
            ELSE Ok(SubSeq(inf.val, 1, n))

\* decode_reader: byteBuf is a fresh empty Vec, so read_exact gets 0 bytes
decode_reader(bytes) == ReadExact(bytes, Len(<<>>))

\* ------------------------------------------------------------ file system
\* Paths are relative to the repository's gitdir: a sequence of components.
\* The gitdir itself (the empty path) is an existing directory.
IsDir(st, p) == p = <<>> \/ p \in st.dirs
IsFile(st, p) == p \in DOMAIN st.files
Exists(st, p) == IsDir(st, p) \/ IsFile(st, p)

Prefixes(p) == {SubSeq(p, 1, n) : n \in 1..Len(p)}

\* std::fs::create_dir_all
create_dir_all(st, p) ==
    IF \E q \in Prefixes(p) : IsFile(st, q)
    THEN [res |-> Err("create_dir_all"), store |-> st]
    ELSE [res |-> Ok(p), store |-> [st EXCEPT !.dirs = @ \cup Prefixes(p)]]

\* std::fs::write: creates the file or replaces its whole content
fs_write(st, p, bytes) ==
    IF p = <<>> \/ IsDir(st, p) \/ ~IsDir(st, SubSeq(p, 1, Len(p) - 1))
    THEN [res |-> Err("fs::write"), store |-> st]
    ELSE [res |-> Ok(p),
          store |-> [st EXCEPT !.files =
                        [q \in DOMAIN st.files \cup {p} |->
                            IF q = p THEN bytes ELSE st.files[q]]]]

\* std::fs::read
fs_read(st, p) == IF IsFile(st, p) THEN Ok(st.files[p]) ELSE Err("fs::read")

\* repo_path_path: join the fragments under the root (the gitdir)
repo_path_path(paths) == paths

\* repo_dir_path: the directory must exist, or is created when mk_dir
repo_dir_path(st, mk_dir, paths) ==
    LET p == repo_path_path(paths)
    IN IF Exists(st, p)
       THEN IF IsDir(st, p)
            THEN [res |-> Ok(p), store |-> st]
            ELSE [res |-> Err("Path already existed as a file"), store |-> st]
       ELSE IF mk_dir
            THEN LET c == create_dir_all(st, p)
                 IN IF c.res.tag = "Err"
                    THEN [res |-> Err("Couldn't create necessary directories"),
                          store |-> c.store]
                    ELSE c
            ELSE [res |-> Err("Failed to create directories"), store |-> st]

\* repo_file_path: repo_dir_path on all but the last fragment
repo_file_path(st, mk_dir, paths) ==
    LET send_down == IF Len(paths) > 0 THEN SubSeq(paths, 1, Len(paths) - 1)
                     ELSE <<>>
        d == repo_dir_path(st, mk_dir, send_down)
    IN IF d.res.tag = "Ok"
       THEN [res |-> Ok(repo_path_path(paths)), store |-> d.store]
       ELSE [res |-> Err("Failed to create directory path"), store |-> d.store]

\* vec!["objects", &sha[..2], &sha[2..]]
ObjectPath(sha) == <<ObjectsName, SubSeq(sha, 1, 2), SubSeq(sha, 3, Len(sha))>>

\* ----------------------------------------------------------- git objects
\* One record shape for the four variants of GObj; a field a variant does
\* not have is empty.  repo is "Some" or "None".
MkTag(repo) ==
    [kind |-> "tag", repo |-> repo, blob_data |-> <<>>, kvlm |-> <<>>,
     data |-> <<>>, items |-> <<>>]

\* GitCommit::new: the KVLM starts empty, the bytes are only kept in _data
GitCommit_new(repo, bytes) ==
    [kind |-> "commit", repo |-> repo, blob_data |-> <<>>, kvlm |-> <<>>,
     data |-> bytes, items |-> <<>>]

GitBlob_new(repo, bytes) ==
    [kind |-> "blob", repo |-> repo, blob_data |-> bytes, kvlm |-> <<>>,
     data |-> <<>>, items |-> <<>>]

\* GitTree::new: the bytes are dropped, items starts empty
GitTree_new(repo, bytes) ==
    [kind |-> "tree", repo |-> repo, blob_data |-> <<>>, kvlm |-> <<>>,
     data |-> <<>>, items |-> <<>>]

\* GitTag::new: the bytes are dropped
GitTag_new(repo, bytes) == MkTag(repo)

\* GitObject::fmt
Fmt(obj) ==
    CASE obj.kind = "blob" -> FmtBlob
      [] obj.kind = "tree" -> FmtTree
      [] obj.kind = "commit" -> FmtCommit
      [] obj.kind = "tag" -> FmtTag

\* GitObject::repo: the trait's default body, which no variant overrides
GitObject_repo_field(obj) == Ok(obj.repo)
GitObject_repo(obj) == Panic("Not yet implemented")

\* kvlm_serialize, the field lines: the key itself is never pushed
RECURSIVE kvlm_values(_)
kvlm_values(v) ==
    IF v = <<>> THEN <<>>
    ELSE <<SP>> \o ReplaceByte(v[1], NL, <<NL, SP>>) \o <<NL>>
         \o kvlm_values(Tail(v))

RECURSIVE kvlm_fields(_)
kvlm_fields(hm) ==
    IF hm = <<>> THEN <<>>
    ELSE (IF hm[1].k = KeyMessage THEN <<>> ELSE kvlm_values(hm[1].v))
         \o kvlm_fields(Tail(hm))

\* main: v[0] of the message key, "" when the key is missing
kvlm_main(hm) ==
    LET idx == {i \in 1..Len(hm) : hm[i].k = KeyMessage}
    IN IF idx = {} THEN <<>> ELSE hm[Min(idx)].v[1]

\* kvlm_serialize
kvlm_serialize(hm) == kvlm_fields(hm) \o <<NL>> \o kvlm_main(hm)

\* tree_serialize: mode SP path NUL per leaf; the sha is parsed, not pushed
RECURSIVE tree_serialize(_)
tree_serialize(items) ==
    IF items = <<>> THEN <<>>
    ELSE items[1].mode \o <<SP>> \o items[1].path \o <<NUL>>
         \o tree_serialize(Tail(items))

\* GitObject::serialize of each variant
Serialize(obj) ==
    CASE obj.kind = "tag" -> Err("Serialize on GitTag not yet implenented")
      [] obj.kind = "commit" -> Ok(kvlm_serialize(obj.kvlm))
      [] obj.kind = "blob" -> Ok(obj.blob_data)
      [] obj.kind = "tree" -> Ok(tree_serialize(obj.items))

\* The header and body that object_write hashes
Frame(fmt, data) == fmt \o <<SP>> \o ToDecimal(Len(data)) \o <<NUL>> \o data

\* object_write
object_write(st, obj, actually_write) ==
    LET ser == Serialize(obj)
    IN IF ser.tag = "Err" THEN [res |-> ser, store |-> st]
       ELSE
       LET result == Frame(Fmt(obj), ser.val)
           outStr == Sha1Hex(result)
       IN IF ~actually_write THEN [res |-> Ok(outStr), store |-> st]
          ELSE
          LET r == GitObject_repo(obj)
          IN IF r.tag = "Panic" THEN [res |-> r, store |-> st]
             ELSE IF r.val = "None"
             THEN [res |-> Panic("unwrap on None"), store |-> st]
             ELSE
             LET path == repo_file_path(st, TRUE, ObjectPath(outStr))
             IN IF path.res.tag = "Err" THEN path
                ELSE
                LET compressed_bytes == ZlibEncode(result)
                    compressed_byte_str == TodoFixme
                    w == fs_write(path.store, path.res.val, compressed_byte_str)
                IN IF w.res.tag = "Err"
                   THEN [res |-> Err("Failed to write GitObject to file"),
                         store |-> w.store]
                   ELSE [res |-> Ok(outStr), store |-> w.store]

\* --------------------------------------------------------------- reading
\* object_read after decompression: header scan, size check, dispatch
object_read_decoded(decoded) ==
    LET xIdx == Position(decoded, 0, SP)
        yIdx == Position(decoded, 0, NUL)
    IN IF xIdx = None THEN Err("no space delimeter was found")
       ELSE IF yIdx = None THEN Err("no null delimeter was found")
       ELSE IF ~SliceOk(decoded, xIdx, yIdx) THEN Panic("slice index")
       ELSE
       LET sizeStr == Slice(decoded, xIdx, yIdx)
       IN IF ~Utf8Valid(sizeStr) THEN Panic("from_utf8 unwrap")
          ELSE IF ParseUsize(sizeStr) = None THEN Panic("parse unwrap")
          ELSE IF ParseUsize(sizeStr) # Len(decoded) - (yIdx - 1)
          THEN Err("Malformed object, bad length")
          ELSE
          LET dfmt == Slice(decoded, 0, xIdx)
              body == Slice(decoded, yIdx + 1, Len(decoded))
          IN CASE dfmt = FmtCommit -> Ok(GitCommit_new("Some", body))
               [] dfmt = FmtTree -> Ok(GitTree_new("Some", body))
               [] dfmt = FmtTag -> Ok(GitTag_new("Some", body))
               [] dfmt = FmtBlob -> Ok(GitBlob_new("Some", body))
               [] OTHER -> Err("Unknown type")

\* object_read asks repo_file_gr for the path with mk_dir = false
object_read_mk_dir_true == TRUE
object_read_mk_dir == FALSE

\* object_read: the result and the store it leaves
object_read(st, sha) ==
    IF Len(sha) < 2 THEN [res |-> Panic("slice index"), store |-> st]
    ELSE
    LET path == repo_file_path(st, object_read_mk_dir, ObjectPath(sha))
    IN IF path.res.tag = "Err" THEN path
       ELSE
       LET raw == fs_read(path.store, path.res.val)
       IN IF raw.tag = "Err"
          THEN [res |-> Err("Failed to read git object file"),
                store |-> path.store]
          ELSE
          LET decoded == decode_reader(raw.val)
          IN IF decoded.tag = "Err"
             THEN [res |-> Err("Failed to decode ZLIB encoded byte array"),
                   store |-> path.store]
             ELSE [res |-> object_read_decoded(decoded.val),
                   store |-> path.store]

\* The match of hash_object on gitType
NewObject(gitType, repo, bytes) ==
    CASE gitType = "commit" -> GitCommit_new(repo, bytes)
      [] gitType = "tree" -> GitTree_new(repo, bytes)
      [] gitType = "tag" -> GitTag_new(repo, bytes)
      [] gitType = "blob" -> GitBlob_new(repo, bytes)

\* hash_object: build the variant named by gitType, then write it
hash_object(st, bytes, gitType, repo) ==
    IF gitType \notin {"commit", "tree", "tag", "blob"}
    THEN [res |-> Err("Unknown type"), store |-> st]
    ELSE object_write(st, NewObject(gitType, repo, bytes), TRUE)

\* cmd_hash_object, run in a valid repository on a readable file
cmd_hash_object(st, actually_write, gtype, bytes) ==
    LET grOpt == IF actually_write THEN "Some" ELSE "None"
    IN hash_object(st, bytes, gtype, grOpt)

\* ------------------------------------------------------------------ KVLM
\* A LinkedHashMap<String, Vec<String>>: a sequence of [k, v] in
\* insertion order, keys distinct.
contains_key(dict, key) == \E i \in 1..Len(dict) : dict[i].k = key

\* dict[key]; the caller checks contains_key first
get(dict, key) == dict[CHOOSE i \in 1..Len(dict) : dict[i].k = key].v

\* dict.get_mut(key).unwrap().push(value)
push_value(dict, key, value) ==
    [i \in 1..Len(dict) |->
        IF dict[i].k = key THEN [dict[i] EXCEPT !.v = Append(@, value)]
        ELSE dict[i]]

\* LinkedHashMap::insert: a present key is replaced and moved to the back
insert(dict, key, v) ==
    SelectSeq(dict, LAMBDA e : e.k # key) \o <<[k |-> key, v |-> v]>>

\* The loop of kvlm_parse that looks for the end of the value; `tried` are
\* the values of `end` the loop has already started an iteration with
RECURSIVE kvlm_value_end(_, _, _)
kvlm_value_end(raw, end, tried) ==
    LET i == Position(raw, end + 1, NL)
    IN IF end \in tried THEN [tag |-> "Hang"]
       ELSE IF i = None THEN Ok(end)
       ELSE IF i + 1 >= Len(raw) THEN Panic("index out of bounds")
       ELSE IF At(raw, i + 1) # SP THEN Ok(i)
       ELSE kvlm_value_end(raw, i, tried \cup {end})

\* kvlm_parse; `visited` are the offsets of the enclosing calls
RECURSIVE kvlm_parse_from(_, _, _, _)
kvlm_parse_from(raw, start, dict, visited) ==
    LET space == Position(raw, start, SP)
        newline == Position(raw, start, NL)
        base ==
            IF newline = None THEN Panic("unwrap on None")
            ELSE IF newline # start THEN Panic("assert_eq")
            ELSE IF ~SliceOk(raw, start + 1, Len(raw)) THEN Panic("slice index")
            ELSE IF ~Utf8Valid(Slice(raw, start + 1, Len(raw))) THEN Ok(dict)
            ELSE Ok(insert(dict, KeyMessage,
                           <<Slice(raw, start + 1, Len(raw))>>))
        rec ==
            IF ~SliceOk(raw, start, space) THEN Panic("slice index")
            ELSE IF ~Utf8Valid(Slice(raw, start, space))
            THEN Panic("Failed to parse key in kvlm")
            ELSE
            LET key == Slice(raw, start, space)
                e == kvlm_value_end(raw, start, {})
            IN IF e.tag # "Ok" THEN e
               ELSE IF ~SliceOk(raw, space + 1, e.val) THEN Panic("slice index")
               ELSE IF ~Utf8Valid(Slice(raw, space + 1, e.val))
               THEN Panic("from_utf8 unwrap")
               ELSE
               LET value == ReplaceNlSp(Slice(raw, space + 1, e.val))
                   d2 == IF contains_key(dict, key)
                         THEN push_value(dict, key, value) ELSE dict
               IN kvlm_parse_from(raw, e.val + 1, d2, visited \cup {start})
    IN IF start \in visited THEN [tag |-> "Hang"]
       ELSE IF space = None THEN base
       ELSE IF newline = None THEN Panic("unwrap on None")
       ELSE IF newline < space THEN base
       ELSE rec

kvlm_parse(raw, start, dict) == kvlm_parse_from(raw, start, dict, {})

\* GitCommit::deserialize: the outcome of kvlm_parse is the new kvlm
GitCommit_deserialize(obj, data) ==
    LET r == kvlm_parse(data, 0, <<>>)
    IN IF r.tag = "Ok" THEN Ok([obj EXCEPT !.kvlm = r.val]) ELSE r

\* ------------------------------------------------------------------- log
\* log_graphviz: `seen` is the visited list, `out` the printed edges
RECURSIVE log_graphviz(_, _, _, _)
RECURSIVE log_parents(_, _, _, _, _)

log_graphviz(st, sha, seen, out) ==
    IF \E i \in 1..Len(seen) : seen[i] = sha
    THEN [res |-> Ok("unit"), seen |-> seen, out |-> out]
    ELSE
    LET seen2 == Append(seen, sha)
        r == object_read(st, sha).res
    IN IF r.tag # "Ok" THEN [res |-> r, seen |-> seen2, out |-> out]
       ELSE IF r.val.kind # "commit"
       THEN [res |-> Err("??"), seen |-> seen2, out |-> out]
       ELSE IF ~contains_key(r.val.kvlm, KeyParent)
       THEN [res |-> Ok("unit"), seen |-> seen2, out |-> out]
       ELSE IF ~contains_key(r.val.kvlm, KeyParents)
       THEN [res |-> Panic("index of missing key"), seen |-> seen2,
             out |-> out]
       ELSE log_parents(st, sha, get(r.val.kvlm, KeyParents), seen2, out)

\* the `for p in parents` loop of log_graphviz
log_parents(st, sha2, parents, seen, out) ==
    IF parents = <<>> THEN [res |-> Ok("unit"), seen |-> seen, out |-> out]
    ELSE
    LET p == parents[1]
        r == log_graphviz(st, p, seen, Append(out, <<sha2, p>>))
    IN IF r.res.tag # "Ok" THEN r
       ELSE log_parents(st, sha2, Tail(parents), r.seen, r.out)

\* cmd_log in a repository: object_find returns the name it is given
cmd_log(st, commit) == log_graphviz(st, commit, <<>>, <<>>)

\* -------------------------------------------------------------- checkout
\* Paths of the working directory are sequences of components under the
\* directory the command runs in (the empty path, which exists).
HasEntry(wk, p) ==
    \E q \in wk.dirs \cup DOMAIN wk.files :
        Len(q) = Len(p) + 1 /\ SubSeq(q, 1, Len(p)) = p

\* std::fs::create_dir: the parent must exist, the path must not
create_dir(wk, p) ==
    IF p = <<>> \/ Exists(wk, p) \/ ~IsDir(wk, SubSeq(p, 1, Len(p) - 1))
    THEN [res |-> Err("fs::create_dir"), store |-> wk]
    ELSE [res |-> Ok(p), store |-> [wk EXCEPT !.dirs = @ \cup {p}]]

\* tree_checkout that goes on to the next entry after a failed read
RECURSIVE tree_checkout_continue(_, _, _, _, _)
tree_checkout_continue(st, wk, items, path, reads) ==
    IF items = <<>> THEN [res |-> Ok("unit"), work |-> wk, reads |-> reads]
    ELSE
    LET item == items[1]
        dest == Append(path, item.path)
        o == object_read(st, item.sha).res
        reads2 == Append(reads, item.sha)
        rest == tree_checkout_continue(st, wk, Tail(items), path, reads2)
    IN IF ~Utf8Valid(item.path)
       THEN [res |-> Err("Failed to parse item path tree_checkout."),
             work |-> wk, reads |-> reads]
       ELSE IF o.tag # "Ok"
       THEN [res |-> o, work |-> rest.work, reads |-> rest.reads]
       ELSE IF o.val.kind = "tree"
       THEN LET d == create_dir(wk, dest)
            IN IF d.res.tag = "Err"
               THEN [res |-> Err("Failed to create destination folder during tree_checkout"),
                     work |-> wk, reads |-> reads2]
               ELSE tree_checkout_continue(st, d.store, Tail(items), path,
                                           reads2)
       ELSE IF o.val.kind = "blob"
       THEN LET w == fs_write(wk, dest, o.val.blob_data)
            IN IF w.res.tag = "Err"
               THEN [res |-> Err("Failed to write blob data to disk during tree_checkout"),
                     work |-> wk, reads |-> reads2]
               ELSE tree_checkout_continue(st, w.store, Tail(items), path,
                                           reads2)
       ELSE [res |-> Err("Expected to retrieve a Tree or a Blob, but received some other type instead"),
             work |-> wk, reads |-> reads2]

\* tree_checkout: `reads` lists the digests handed to object_read
RECURSIVE tree_checkout(_, _, _, _, _)
tree_checkout(st, wk, items, path, reads) ==
    IF items = <<>> THEN [res |-> Ok("unit"), work |-> wk, reads |-> reads]
    ELSE
    LET item == items[1]
    IN IF ~Utf8Valid(item.path)
       THEN [res |-> Err("Failed to parse item path tree_checkout."),
             work |-> wk, reads |-> reads]
       ELSE
       LET dest == Append(path, item.path)
           o == object_read(st, item.sha).res
           reads2 == Append(reads, item.sha)
       IN IF o.tag # "Ok" THEN [res |-> o, work |-> wk, reads |-> reads2]
          ELSE IF o.val.kind = "tree"
          THEN LET d == create_dir(wk, dest)
               IN IF d.res.tag = "Err"
                  THEN [res |-> Err("Failed to create destination folder during tree_checkout"),
                        work |-> wk, reads |-> reads2]
                  ELSE LET sub == tree_checkout(st, d.store, o.val.items,
                                                dest, reads2)
                       IN IF sub.res.tag # "Ok" THEN sub
                          ELSE tree_checkout(st, sub.work, Tail(items), path,
                                             sub.reads)
          ELSE IF o.val.kind = "blob"
          THEN LET w == fs_write(wk, dest, o.val.blob_data)
               IN IF w.res.tag = "Err"
                  THEN [res |-> Err("Failed to write blob data to disk during tree_checkout"),
                        work |-> wk, reads |-> reads2]
                  ELSE tree_checkout(st, w.store, Tail(items), path, reads2)
          ELSE [res |-> Err("Expected to retrieve a Tree or a Blob, but received some other type instead"),
                work |-> wk, reads |-> reads2]

\* cmd_checkout, the match that resolves the starting object to a tree
checkout_tree(st, sha) ==
    LET o == object_read(st, sha).res
    IN IF o.tag # "Ok" THEN o
       ELSE IF o.val.kind = "commit"
       THEN IF ~contains_key(o.val.kvlm, KeyTree) THEN Panic("unwrap on None")
            ELSE IF get(o.val.kvlm, KeyTree) = <<>>
            THEN Panic("index out of bounds")
            ELSE
            LET t == object_read(st, get(o.val.kvlm, KeyTree)[1]).res
            IN IF t.tag = "Panic" THEN t
               ELSE IF t.tag = "Err"
               THEN Err("Expected commit to contain a tree with the value 'tree' but got nothing")
               ELSE IF t.val.kind = "tree" THEN t
               ELSE Err("Expected a tree from this commit, but failed to retreive one")
       ELSE IF o.val.kind = "tree" THEN o
       ELSE Err("Expected a tree object or a commit object, got something else")

\* cmd_checkout from the destination check on, `o` the resolved tree
checkout_into(st, wk, o, path) ==
    IF o.tag # "Ok" THEN [res |-> o, work |-> wk, reads |-> <<>>]
    ELSE IF Exists(wk, path) /\ ~IsDir(wk, path)
    THEN [res |-> Err("Supplied path was not a directory"),
          work |-> wk, reads |-> <<>>]
    ELSE IF Exists(wk, path) /\ HasEntry(wk, path)
    THEN [res |-> Err("Cannot create Git object directory, supplied path is not empty."),
          work |-> wk, reads |-> <<>>]
    ELSE
    LET d == create_dir(wk, path)
    IN IF d.res.tag = "Err"
       THEN [res |-> Err("Failed to checkout git object: Error creating directory path"),
             work |-> wk, reads |-> <<>>]
       ELSE tree_checkout(st, d.store, o.val.items, path, <<>>)

\* cmd_checkout in a repository: object_find returns the name it is given
cmd_checkout(st, wk, sha, path) ==
    checkout_into(st, wk, checkout_tree(st, sha), path)


\* ------------------------------------------------------------ tag codec
\* GitTag::deserialize
GitTag_deserialize(obj, data) ==
    Err("Deserialize on GitTag not yet implemented")

\* GitObject::deserialize of the two KVLM variants
Deserialize(obj, data) ==
    IF obj.kind = "tag" THEN GitTag_deserialize(obj, data)
    ELSE GitCommit_deserialize(obj, data)

\* ----------------------------------------------------------- tree codec
\* A u32 is kept as two 16-bit halves [hi, lo]
U16 == 65536

\* u32::from_be_bytes of bytes 4j-3 .. 4j of v, as halves
BeHi(v, j) == v[4 * j - 3] * 256 + v[4 * j - 2]
BeLo(v, j) == v[4 * j - 1] * 256 + v[4 * j]

RECURSIVE SumHi(_, _)
SumHi(v, k) == IF k = 0 THEN 0 ELSE BeHi(v, k) + SumHi(v, k - 1)

RECURSIVE SumLo(_, _)
SumLo(v, k) == IF k = 0 THEN 0 ELSE BeLo(v, k) + SumLo(v, k - 1)

\* sha_parse_u32: `buff` is added when the next group of four starts, so
\* the last group is never added. `debug` is the build's overflow checking:
\* `sha +=` panics with it and wraps without it.
sha_parse_u32(v, debug) ==
    LET k == IF v = <<>> THEN 0 ELSE (Len(v) - 1) \div 4
        lo == SumLo(v, k)
        hi == SumHi(v, k) + lo \div U16
    IN IF hi >= U16 /\ debug THEN Panic("attempt to add with overflow")
       ELSE Ok([hi |-> hi % U16, lo |-> lo % U16])

\* format!("{:x}"): lowercase hex, no leading zeros
RECURSIVE HexDigits(_)
HexDigits(n) ==
    IF n < 16 THEN <<HexChar(n)>>
    ELSE HexDigits(n \div 16) \o <<HexChar(n % 16)>>

\* sha_parse_str
sha_parse_str(i) ==
    IF i.hi = 0 THEN HexDigits(i.lo) ELSE HexDigits(i.hi) \o ToHex(i.lo, 4)

\* tree_parse_one from the digest slice on; x and y are the found positions
tree_parse_sha(raw, start, x, y, debug) ==
    IF ~SliceOk(raw, y + 1, y + 21) THEN Panic("slice index")
    ELSE
    LET sha_u32 == sha_parse_u32(Slice(raw, y + 1, y + 21), debug)
    IN IF sha_u32.tag # "Ok" THEN sha_u32
       ELSE Ok([pos |-> y + 21,
                data |-> [mode |-> Slice(raw, start, x),
                          path |-> Slice(raw, x + 1, y),
                          sha |-> sha_parse_str(sha_u32.val)]])

\* tree_parse_one: x and y are what position() returns after skip(start),
\* offsets from `start`
tree_parse_one(raw, start, debug) ==
    LET x == Position(raw, start, SP)
        y == Position(raw, start, NUL)
    IN IF x = None
       THEN Err("no space found in raw byte stream of tree parse")
       ELSE IF x < start /\ debug
       THEN Panic("attempt to subtract with overflow")
       ELSE IF x - start \notin {5, 6} THEN Panic("assertion failed")
       ELSE IF ~SliceOk(raw, start, x) THEN Panic("slice index")
       ELSE IF y = None
       THEN Err("no null terminator found in raw byte stream of tree parse")
       ELSE IF ~SliceOk(raw, x + 1, y) THEN Panic("slice index")
       ELSE tree_parse_sha(raw, start, x, y, debug)

\* tree_parse: the loop, `pos += pos_m`
RECURSIVE tree_parse_from(_, _, _, _)
tree_parse_from(raw, pos, v, debug) ==
    IF pos >= Len(raw) THEN Ok(v)
    ELSE LET r == tree_parse_one(raw, pos, debug)
         IN IF r.tag # "Ok" THEN r
            ELSE tree_parse_from(raw, pos + r.val.pos,
                                 Append(v, r.val.data), debug)

tree_parse(raw, debug) == tree_parse_from(raw, 0, <<>>, debug)

\* The values `pos` takes in the loop of tree_parse, one per parsed entry
RECURSIVE tree_parse_cursors(_, _, _)
tree_parse_cursors(raw, pos, debug) ==
    IF pos >= Len(raw) THEN <<>>
    ELSE LET r == tree_parse_one(raw, pos, debug)
         IN IF r.tag # "Ok" THEN <<>>
            ELSE <<pos + r.val.pos>>
                 \o tree_parse_cursors(raw, pos + r.val.pos, debug)

\* ------------------------------------------------------ repositories
\* The directories from the filesystem root down to the deepest one are
\* numbered 0, 1, ..; `fs` gives, per directory, what its `.git` is:
\*   "none"       no entry            "file"      a regular file
\*   "noconfig"   a directory without config
\*   "badconfig"  a directory whose config Ini::load_from_file rejects
\*   "nocore"     config without a [core] section
\*   "nokey"      [core] without repositoryformatversion
\*   "notint"     repositoryformatversion that is not a number
\*   "v1", "v0"   repositoryformatversion = 1, = 0
GitStates ==
    {"none", "file", "noconfig", "badconfig", "nocore", "nokey", "notint",
     "v1", "v0"}

\* fs[l + 1] for a directory that exists
GitOf(fs, l) == fs[l + 1]

\* path.join(".git").is_dir()
git_is_dir(fs, l) == l < Len(fs) /\ GitOf(fs, l) \notin {"none", "file"}

\* The repository value: its worktree
Repo(l) == [found |-> TRUE, worktree |-> l]
NoRepo == [found |-> FALSE, worktree |-> None]

\* GitRepository::new from the version check on
repo_version(g, path) ==
    IF g = "nocore"
    THEN Panic("Expected a section named core, but none existed")
    ELSE IF g = "nokey"
    THEN Panic("expected a 'repositoryformatversion' key")
    ELSE IF g = "notint"
    THEN Panic("expected 'repositoryformatversion' to contain a valid integer")
    ELSE IF g = "v1" THEN Err("Unsupported repo format version")
    ELSE Ok(Repo(path))

\* GitRepository::new(path, force) for an existing directory `path`
GitRepository_new(fs, path, force) ==
    IF ~(force \/ git_is_dir(fs, path)) THEN Err("Not a git path")
    ELSE IF ~git_is_dir(fs, path) THEN Ok(Repo(path))
    ELSE IF GitOf(fs, path) = "badconfig"
    THEN Err("Failed to read git config file")
    ELSE IF GitOf(fs, path) = "noconfig" /\ ~force
    THEN Err("Configuration file missing")
    ELSE IF force THEN Ok(Repo(path))
    ELSE repo_version(GitOf(fs, path), path)

\* real.parent(): None for the root
Parent(real) == IF real = 0 THEN None ELSE real - 1

\* repo_find, the loop `while let Some(p) = real.parent()`: the body
\* assigns nothing, so an iteration that does not return starts again in
\* the state `seen` already holds
RECURSIVE repo_find_loop(_, _, _, _)
repo_find_loop(fs, path, real, seen) ==
    IF real \in seen THEN [tag |-> "Hang"]
    ELSE IF Parent(real) = None THEN Ok(NoRepo)
    ELSE IF git_is_dir(fs, Parent(real))
    THEN GitRepository_new(fs, path, FALSE)
    ELSE repo_find_loop(fs, path, real, seen \cup {real})

\* repo_find(path, required); canonicalize fails for a missing path
repo_find(fs, path, required) ==
    IF path >= Len(fs)
    THEN Err("Failed to create canonical path from supplied path")
    ELSE IF git_is_dir(fs, path) THEN GitRepository_new(fs, path, FALSE)
    ELSE repo_find_loop(fs, path, path, {})

\* ------------------------------------------------------- repo_create
\* ".git", "config", "branches", "refs", "tags", "heads", "description",
\* "HEAD"
DotGit == <<46, 103, 105, 116>>
ConfigName == <<99, 111, 110, 102, 105, 103>>
BranchesName == <<98, 114, 97, 110, 99, 104, 101, 115>>
RefsName == <<114, 101, 102, 115>>
TagsName == <<116, 97, 103, 115>>
HeadsName == <<104, 101, 97, 100, 115>>
DescriptionName == <<100, 101, 115, 99, 114, 105, 112, 116, 105, 111, 110>>
HeadName == <<72, 69, 65, 68>>

\* "Unnamed repository; edit this file 'description' to name the
\* repository.\n"
DescriptionText ==
    <<85, 110, 110, 97, 109, 101, 100, 32, 114, 101, 112, 111, 115,
      105, 116, 111, 114, 121, 59, 32, 101, 100, 105, 116, 32, 116,
      104, 105, 115, 32, 102, 105, 108, 101, 32, 39, 100, 101, 115,
      99, 114, 105, 112, 116, 105, 111, 110, 39, 32, 116, 111, 32,
      110, 97, 109, 101, 32, 116, 104, 101, 32, 114, 101, 112, 111,
      115, 105, 116, 111, 114, 121, 46, 10>>

\* "ref: refs/heads/master\n"
HeadText ==
    <<114, 101, 102, 58, 32, 114, 101, 102, 115, 47, 104, 101, 97,
      100, 115, 47, 109, 97, 115, 116, 101, 114, 10>>

\* repo_default_config as Ini::write_to_file writes it:
\* "[core]\nrepositoryformatversion=0\nfilemode=false\nbare=false\n"
DefaultConfig ==
    <<91, 99, 111, 114, 101, 93, 10, 114, 101, 112, 111, 115, 105,
      116, 111, 114, 121, 102, 111, 114, 109, 97, 116, 118, 101, 114,
      115, 105, 111, 110, 61, 48, 10, 102, 105, 108, 101, 109, 111,
      100, 101, 61, 102, 97, 108, 115, 101, 10, 98, 97, 114, 101, 61,
      102, 97, 108, 115, 101, 10>>

\* A config Ini::load_from_file rejects: "[", a section header never closed
BadIni == <<91>>

\* Ini::load_from_file(p) succeeds
ini_loads(wk, p) == IsFile(wk, p) /\ wk.files[p] # BadIni

\* GitRepository::new(path, true) on the working directory: with force
\* only a config that exists and does not load is an error
GitRepository_new_force(wk, path) ==
    LET p == repo_file_path(wk, FALSE, path \o <<DotGit, ConfigName>>)
    IN IF p.res.tag = "Ok" /\ Exists(wk, p.res.val)
             /\ ~ini_loads(wk, p.res.val)
       THEN Err("Failed to read git config file")
       ELSE Ok([worktree |-> path])

\* The four repo_dir_gr(&repo, true, ..) calls, in order
RepoDirs ==
    << [p |-> <<BranchesName>>,
        msg |-> "Failed to create directory Branches underneath git main dir"],
       [p |-> <<ObjectsName>>,
        msg |-> "Failed to create directory objects underneath git main dir"],
       [p |-> <<RefsName, TagsName>>,
        msg |-> "Failed to create directory refs/tags underneath git main dir"],
       [p |-> <<RefsName, HeadsName>>,
        msg |-> "Failed to create directory refs/heads underneath git main dir"] >>

RECURSIVE repo_create_dirs(_, _, _)
repo_create_dirs(wk, gitdir, todo) ==
    IF todo = <<>> THEN [res |-> Ok("unit"), work |-> wk]
    ELSE LET d == repo_dir_path(wk, TRUE, gitdir \o todo[1].p)
         IN IF d.res.tag = "Err"
            THEN [res |-> Err(todo[1].msg), work |-> d.store]
            ELSE repo_create_dirs(d.store, gitdir, Tail(todo))

\* The three files, in order; a failed write of the config is an `expect`
RepoFiles ==
    << [name |-> DescriptionName, text |-> DescriptionText,
        nofile |-> Err("Failed to create description file under git main"),
        nowrite |-> Err("Failed writing Description file")],
       [name |-> HeadName, text |-> HeadText,
        nofile |-> Err("Failed to create HEAD file under git main"),
        nowrite |-> Err("Failed writing HEAD file")],
       [name |-> ConfigName, text |-> DefaultConfig,
        nofile |-> Err("Failed to create config file under git main"),
        nowrite |-> Panic("Failed to write ini config to file")] >>

RECURSIVE repo_create_files(_, _, _)
repo_create_files(wk, gitdir, todo) ==
    IF todo = <<>> THEN [res |-> Ok("unit"), work |-> wk]
    ELSE
    LET p == repo_file_path(wk, FALSE, Append(gitdir, todo[1].name))
    IN IF p.res.tag = "Err" THEN [res |-> todo[1].nofile, work |-> wk]
       ELSE LET w == fs_write(wk, p.res.val, todo[1].text)
            IN IF w.res.tag = "Err"
               THEN [res |-> todo[1].nowrite, work |-> wk]
               ELSE repo_create_files(w.store, gitdir, Tail(todo))

\* repo_create once the work tree has passed its checks
repo_create_fill(d, gitdir, repo) ==
    IF d.res.tag # "Ok" THEN d
    ELSE [repo_create_files(d.work, gitdir, RepoFiles) EXCEPT
             !.res = IF @.tag = "Ok" THEN repo ELSE @]

\* repo_create without the checks of the work tree
repo_create_unchecked(wk, path) ==
    repo_create_fill(repo_create_dirs(wk, Append(path, DotGit), RepoDirs),
                     Append(path, DotGit), Ok([worktree |-> path]))

\* GitRepository::repo_create(path); create_dir_all on the existing, empty
\* work tree changes nothing
repo_create(wk, path) ==
    LET repo == GitRepository_new_force(wk, path)
    IN IF repo.tag # "Ok" THEN [res |-> repo, work |-> wk]
       ELSE IF Exists(wk, path) /\ IsFile(wk, path)
       THEN [res |-> Err("Cannot create new repository, supplied path is not a directory."),
             work |-> wk]
       ELSE IF Exists(wk, path) /\ HasEntry(wk, path)
       THEN [res |-> Err("Cannot create new repository, supplied path is not empty."),
             work |-> wk]
       ELSE repo_create_fill(
                repo_create_dirs(wk, Append(path, DotGit), RepoDirs),
                Append(path, DotGit), repo)

\* ------------------------------------------------------------ the inputs
\* Digest names used as file names in the store: two in one subdirectory,
\* and the digest of the "hello\n" blob
DA == ToHex(1, HashHexLen)
DB == ToHex(2, HashHexLen)
DH == Sha1Hex(Frame(FmtBlob, Hello))
Names == {DA, DB, DH}

\* "parent <p>\n\nm"
CommitBody(p) == KeyParent \o <<SP>> \o p \o <<NL, NL, 109>>

\* Byte contents an object file may hold: what object_write leaves, what
\* git itself writes (compressed framed objects), and damaged objects
FileContents ==
    { TodoFixme,
      ZlibEncode(Frame(FmtBlob, Hello)),
      ZlibEncode(Frame(FmtCommit, CommitBody(DA))),
      ZlibEncode(Frame(FmtCommit, CommitBody(DB))),
      ZlibEncode(Frame(FmtCommit, <<NL, 109>>)),
      ZlibEncode(Frame(FmtBlub, <<97>>)),
      ZlibEncode(FmtBlob \o <<SP, 49, 48, NUL>> \o Hello \o <<97, 97>>) }

\* A store holding the files of f (a function from some Names to contents)
StoreOf(f) ==
    [dirs |-> {<<ObjectsName>>}
              \cup {SubSeq(ObjectPath(n), 1, 2) : n \in DOMAIN f},
     files |-> [p \in {ObjectPath(n) : n \in DOMAIN f} |->
                  f[CHOOSE n \in DOMAIN f : ObjectPath(n) = p]]]

InitStores == {StoreOf(f) : f \in UNION {[S -> FileContents] : S \in SUBSET Names}}

EmptyStore == [dirs |-> {<<ObjectsName>>}, files |-> <<>>]

Leaf(mode, path, sha) == [mode |-> mode, path |-> path, sha |-> sha]

\* Objects handed to object_write: every variant, populated
WriteObjects ==
    UNION {{ GitBlob_new(r, Hello),
             GitBlob_new(r, <<>>),
             [GitCommit_new(r, <<>>) EXCEPT !.kvlm =
                 << [k |-> KeyTree, v |-> <<DA>>],
                    [k |-> KeyParent, v |-> <<DB>>],
                    [k |-> KeyMessage, v |-> <<<<109, NL>>>>] >>],
             [GitTree_new(r, <<>>) EXCEPT !.items =
                 << Leaf(<<49, 48, 48, 54, 52, 52>>, <<97>>, DA) >>],
             MkTag(r) } : r \in {"Some", "None"}}

GitTypes == {"blob", "tree", "commit", "tag"}

\* Bytes a buffer handed to a parser is made of, and the buffers
TailBytes == {NUL, NL, SP, 49, 97, 255}

RECURSIVE SeqsUpTo(_, _)
SeqsUpTo(S, n) ==
    IF n = 0 THEN {<<>>}
    ELSE LET shorter == SeqsUpTo(S, n - 1)
         IN shorter \cup {Append(t, b) : t \in shorter, b \in S}

Buffers ==
    {h \o t : h \in {<<>>, FmtBlob, FmtCommit, FmtBlub},
              t \in SeqsUpTo(TailBytes, MaxTail)}

\* The working directory the commands run in, with nothing in it
EmptyWork == [dirs |-> {}, files |-> <<>>]

NoOp ==
    [op |-> "none", obj |-> MkTag("None"), sha |-> <<>>, flag |-> FALSE,
     res |-> Ok("unit"), before |-> EmptyStore, seen |-> <<>>, out |-> <<>>,
     wbefore |-> EmptyWork, reads |-> <<>>]

\* -------------------------------------------------------- the operations
Init ==
    /\ store \in InitStores
    /\ work = EmptyWork
    /\ last = NoOp
    /\ input = <<>>

\* object_write(obj, actually_write)
ObjectWrite(obj, actually_write) ==
    LET r == object_write(store, obj, actually_write)
    IN /\ store' = r.store
       /\ last' = [NoOp EXCEPT !.op = "object_write", !.obj = obj,
                               !.flag = actually_write, !.res = r.res,
                               !.before = store]
       /\ UNCHANGED <<work, input>>

\* object_read(repo, sha)
ObjectRead(sha) ==
    LET r == object_read(store, sha)
    IN /\ store' = r.store
       /\ last' = [NoOp EXCEPT !.op = "object_read", !.sha = sha,
                               !.res = r.res, !.before = store]
       /\ UNCHANGED <<work, input>>

\* wyag hash-object [-w] -t gtype file
CmdHashObject(actually_write, gtype, bytes) ==
    LET r == cmd_hash_object(store, actually_write, gtype, bytes)
    IN /\ store' = r.store
       /\ last' = [NoOp EXCEPT !.op = "cmd_hash_object",
                               !.obj = NewObject(gtype, "None", bytes),
                               !.flag = actually_write, !.res = r.res,
                               !.before = store]
       /\ UNCHANGED <<work, input>>

\* wyag log commit
CmdLog(commit) ==
    LET r == cmd_log(store, commit)
    IN /\ last' = [NoOp EXCEPT !.op = "cmd_log", !.sha = commit,
                               !.res = r.res, !.before = store,
                               !.seen = r.seen, !.out = r.out]
       /\ UNCHANGED <<store, work, input>>

Next ==
    \/ \E obj \in WriteObjects, w \in BOOLEAN : ObjectWrite(obj, w)
    \/ \E sha \in Names : ObjectRead(sha)
    \/ \E w \in BOOLEAN, t \in GitTypes, b \in {Hello, <<>>} :
          CmdHashObject(w, t, b)
    \/ \E c \in Names : CmdLog(c)

Spec == Init /\ [][Next]_vars

\* ------------------------------------------- the parsers on raw buffers
InitParse ==
    /\ store = EmptyStore
    /\ work = EmptyWork
    /\ last = NoOp
    /\ input \in Buffers

\* the header scan, size check and dispatch of object_read on `input`
ReadDecoded ==
    /\ last' = [NoOp EXCEPT !.op = "object_read_decoded",
                            !.res = object_read_decoded(input)]
    /\ UNCHANGED <<store, work, input>>

\* GitCommit::deserialize on `input`
CommitDeserialize ==
    /\ last' = [NoOp EXCEPT !.op = "deserialize",
                            !.res = GitCommit_deserialize(
                                        GitCommit_new("None", <<>>), input)]
    /\ UNCHANGED <<store, work, input>>

NextParse == ReadDecoded \/ CommitDeserialize

SpecParse == InitParse /\ [][NextParse]_vars

\* ------------------------------------------------- checkout: the inputs
\* Bytes of a raw digest in a tree entry (tree_parse_one reads y+1..y+21)
RawDigestLen == 20

HexVal(c) == IF c >= 97 THEN c - 87 ELSE c - 48

\* The raw digest of a digest string of the model: its bytes, zero-padded
\* on the left to RawDigestLen
RawOf(sha) ==
    [i \in 1..RawDigestLen |->
        LET k == i - (RawDigestLen - Len(sha) \div 2)
        IN IF k < 1 THEN 0
           ELSE 16 * HexVal(sha[2 * k - 1]) + HexVal(sha[2 * k])]

\* A tree body as git stores it: mode SP path NUL raw-digest per entry
RECURSIVE TreeBody(_)
TreeBody(entries) ==
    IF entries = <<>> THEN <<>>
    ELSE entries[1].mode \o <<SP>> \o entries[1].path \o <<NUL>>
         \o RawOf(entries[1].sha) \o TreeBody(Tail(entries))

\* "100644", "a", "b", "d"
ModeFile == <<49, 48, 48, 54, 52, 52>>
PathA == <<97>>
PathB == <<98>>
Dest == << <<100>> >>

\* "tree <t>\n\nm"
CommitTreeBody(t) == KeyTree \o <<SP>> \o t \o <<NL, NL, 109>>

\* The entry sequences of the stored trees
StoredTrees ==
    { << Leaf(ModeFile, PathA, DH) >>,
      << Leaf(ModeFile, PathA, DB) >>,
      << Leaf(ModeFile, PathA, DH), Leaf(ModeFile, PathB, DA) >> }

TreeFiles == {ZlibEncode(Frame(FmtTree, TreeBody(e))) : e \in StoredTrees}

\* What each object file may hold in a store that is checked out
CheckoutContents(n) ==
    IF n = DH THEN {ZlibEncode(Frame(FmtBlob, Hello))}
    ELSE IF n = DA THEN TreeFiles \cup {ZlibEncode(Frame(FmtBlob, Hello))}
    ELSE { ZlibEncode(Frame(FmtTag, <<NL, 109>>)),
           ZlibEncode(Frame(FmtCommit, CommitTreeBody(DA))),
           ZlibEncode(Frame(FmtCommit, CommitTreeBody(DH))),
           ZlibEncode(Frame(FmtTree, TreeBody(<<Leaf(ModeFile, PathA, DH)>>))) }

CheckoutStores ==
    {StoreOf(f) : f \in UNION {
        {g \in [S -> UNION {CheckoutContents(n) : n \in Names}] :
            \A n \in S : g[n] \in CheckoutContents(n)} : S \in SUBSET Names}}

\* The destination: absent, an empty directory, a directory with one
\* entry, a regular file
DestStates ==
    { EmptyWork,
      [dirs |-> {Dest}, files |-> <<>>],
      [dirs |-> {Dest}, files |-> [q \in {Append(Dest, PathA)} |-> Hello]],
      [dirs |-> {}, files |-> [q \in {Dest} |-> Hello]] }

\* Entries handed to tree_checkout
CheckoutLeaves ==
    { Leaf(ModeFile, PathA, DA), Leaf(ModeFile, PathB, DB),
      Leaf(ModeFile, PathA, DH), Leaf(ModeFile, <<255>>, DA) }

CheckoutItems ==
    {<<>>} \cup {<<a>> : a \in CheckoutLeaves}
           \cup {<<a, b>> : a \in CheckoutLeaves, b \in CheckoutLeaves}

InitCheckout ==
    /\ store \in CheckoutStores
    /\ work \in DestStates
    /\ last = NoOp
    /\ input = <<>>

\* wyag checkout sha path
CmdCheckout(sha, path) ==
    LET r == cmd_checkout(store, work, sha, path)
    IN /\ work' = r.work
       /\ last' = [NoOp EXCEPT !.op = "cmd_checkout", !.sha = sha,
                               !.res = r.res, !.before = store,
                               !.wbefore = work, !.reads = r.reads]
       /\ UNCHANGED <<store, input>>

\* tree_checkout(repo, tree, path) on a tree with the given items
TreeCheckout(items, path) ==
    LET r == tree_checkout(store, work, items, path, <<>>)
    IN /\ work' = r.work
       /\ last' = [NoOp EXCEPT !.op = "tree_checkout",
                               !.obj = [GitTree_new("Some", <<>>)
                                           EXCEPT !.items = items],
                               !.res = r.res, !.before = store,
                               !.wbefore = work, !.reads = r.reads]
       /\ UNCHANGED <<store, input>>

NextCheckout ==
    \/ \E sha \in Names : CmdCheckout(sha, Dest)
    \/ \E items \in CheckoutItems : TreeCheckout(items, Dest)

SpecCheckout == InitCheckout /\ [][NextCheckout]_vars

\* --------------------------------------------------- codecs: the inputs
MaxVals == 2
MaxBody == 3

\* "1", "1\na"; "", "m", "m\n"
DocValues == {<<49>>, <<49, NL, 97>>}
DocMessages == {<<>>, <<109>>, <<109, NL>>}

KeyOrders ==
    {<<>>, <<KeyTree>>, <<KeyParent>>, <<KeyTree, KeyParent>>,
     <<KeyParent, KeyTree>>}

\* The mappings: field keys in order, one to MaxVals values each, and the
\* message under the empty key
Docs ==
    {[i \in 1..(Len(ks) + 1) |->
        IF i <= Len(ks) THEN [k |-> ks[i], v |-> vs[i]]
        ELSE [k |-> KeyMessage, v |-> <<m>>]] :
        ks \in KeyOrders,
        vs \in [1..2 -> SeqsUpTo(DocValues, MaxVals) \ {<<>>}],
        m \in DocMessages}

\* The body kvlm_parse is written for: `key SP value NL` per value, a
\* newline inside a value followed by a space; a blank line; the message
RECURSIVE KvlmLines(_, _)
KvlmLines(k, v) ==
    IF v = <<>> THEN <<>>
    ELSE k \o <<SP>> \o ReplaceByte(v[1], NL, <<NL, SP>>) \o <<NL>>
         \o KvlmLines(k, Tail(v))

RECURSIVE KvlmText(_)
KvlmText(hm) ==
    IF hm = <<>> THEN <<>>
    ELSE IF hm[1].k = KeyMessage THEN <<NL>> \o hm[1].v[1]
    ELSE KvlmLines(hm[1].k, hm[1].v) \o KvlmText(Tail(hm))

\* "40000"
ModeDir == <<52, 48, 48, 48, 48>>

\* Raw digests: the four leading groups sum to 0, to 3, and past u32::MAX
TreeDigests ==
    { [i \in 1..RawDigestLen |-> IF i = RawDigestLen THEN 1 ELSE 0],
      [i \in 1..RawDigestLen |-> IF i = 4 THEN 1 ELSE IF i = 8 THEN 2 ELSE 0],
      [i \in 1..RawDigestLen |-> IF i <= 4 THEN 255 ELSE IF i = 8 THEN 1 ELSE 0] }

\* The 40 hex digits of a raw digest
RECURSIVE HexOfRaw(_)
HexOfRaw(d) ==
    IF d = <<>> THEN <<>> ELSE ToHex(d[1], 2) \o HexOfRaw(Tail(d))

\* Modes that are too short and too long: "644", "1006440"
ModeShort == <<54, 52, 52>>
ModeLong == <<49, 48, 48, 54, 52, 52, 48>>

TreeLeaves ==
    {Leaf(m, p, HexOfRaw(d)) :
        m \in {ModeFile, ModeDir, ModeShort, ModeLong},
        p \in {PathA, PathB}, d \in TreeDigests}

TreeItems ==
    {<<a>> : a \in TreeLeaves} \cup {<<a, b>> : a \in TreeLeaves, b \in TreeLeaves}

\* The body of one well-formed entry, cut short
TruncatedTrees ==
    UNION {{[hm |-> <<>>, raw |-> SubSeq(TreeBody(<<a>>), 1, n),
             items |-> <<a>>] : n \in 1..(Len(TreeBody(<<a>>)) - 1)} :
           a \in {b \in TreeLeaves :
                     b.mode \in {ModeFile, ModeDir} /\ b.path = PathA}}

\* What a codec is applied to: a mapping with its body, a raw body,
\* tree entries with their body, or a tree body cut short
CodecInputs ==
    {[hm |-> d, raw |-> KvlmText(d), items |-> <<>>] : d \in Docs}
    \cup {[hm |-> <<>>, raw |-> b, items |-> <<>>] :
              b \in SeqsUpTo(TailBytes, MaxBody)}
    \cup {[hm |-> <<>>, raw |-> TreeBody(e), items |-> e] : e \in TreeItems}
    \cup TruncatedTrees

InitCodec ==
    /\ store = EmptyStore
    /\ work = EmptyWork
    /\ last = NoOp
    /\ input \in CodecInputs

\* kvlm_parse(raw, 0, empty map)
KvlmParse ==
    /\ last' = [NoOp EXCEPT !.op = "kvlm_parse",
                            !.res = kvlm_parse(input.raw, 0, <<>>)]
    /\ UNCHANGED <<store, work, input>>

\* kvlm_parse(kvlm_serialize(hm), 0, empty map)
KvlmRoundTrip ==
    /\ last' = [NoOp EXCEPT !.op = "kvlm_roundtrip",
                            !.out = kvlm_serialize(input.hm),
                            !.res = kvlm_parse(kvlm_serialize(input.hm),
                                               0, <<>>)]
    /\ UNCHANGED <<store, work, input>>

\* kvlm_serialize of what kvlm_parse(raw, 0, empty map) returned
kvlm_reserialize(r) == IF r.tag = "Ok" THEN Ok(kvlm_serialize(r.val)) ELSE r

KvlmReserialize ==
    /\ last' = [NoOp EXCEPT !.op = "kvlm_reserialize",
                            !.res = kvlm_reserialize(
                                        kvlm_parse(input.raw, 0, <<>>))]
    /\ UNCHANGED <<store, work, input>>

\* The Commit or Tag a codec call is made on
CodecObject(kind) ==
    IF kind = "tag" THEN MkTag("None")
    ELSE [GitCommit_new("None", <<>>) EXCEPT !.kvlm = input.hm]

\* deserialize(raw) on a Commit or a Tag
CodecDeserialize(kind) ==
    /\ last' = [NoOp EXCEPT !.op = "codec_deserialize",
                            !.obj = CodecObject(kind),
                            !.res = Deserialize(CodecObject(kind), input.raw)]
    /\ UNCHANGED <<store, work, input>>

\* serialize() of a Commit holding the mapping, or of a Tag
CodecSerialize(kind) ==
    /\ last' = [NoOp EXCEPT !.op = "codec_serialize",
                            !.obj = CodecObject(kind),
                            !.res = Serialize(CodecObject(kind))]
    /\ UNCHANGED <<store, work, input>>

\* tree_parse(tree_serialize(items))
TreeRoundTrip(debug) ==
    /\ last' = [NoOp EXCEPT !.op = "tree_roundtrip", !.flag = debug,
                            !.out = tree_serialize(input.items),
                            !.res = tree_parse(tree_serialize(input.items),
                                               debug)]
    /\ UNCHANGED <<store, work, input>>

\* tree_parse(raw)
TreeParse(debug) ==
    /\ last' = [NoOp EXCEPT !.op = "tree_parse", !.flag = debug,
                            !.seen = tree_parse_cursors(input.raw, 0, debug),
                            !.res = tree_parse(input.raw, debug)]
    /\ UNCHANGED <<store, work, input>>

NextCodec ==
    \/ KvlmParse
    \/ KvlmRoundTrip
    \/ KvlmReserialize
    \/ \E kind \in {"commit", "tag"} : CodecDeserialize(kind)
    \/ \E kind \in {"commit", "tag"} : CodecSerialize(kind)
    \/ \E debug \in BOOLEAN : TreeRoundTrip(debug)
    \/ \E debug \in BOOLEAN : TreeParse(debug)

SpecCodec == InitCodec /\ [][NextCodec]_vars

\* ------------------------------------------------- repo_find: the inputs
MaxDepth == 2

\* The directory chains, the start path (the deepest directory, or a
\* missing one below it) and the flag
FindInputs ==
    {[fs |-> f, path |-> p, required |-> r] :
        f \in SeqsUpTo(GitStates, MaxDepth + 1) \ {<<>>},
        p \in 0..(MaxDepth + 1), r \in BOOLEAN}

InitFind ==
    /\ store = EmptyStore
    /\ work = EmptyWork
    /\ last = NoOp
    /\ input \in {i \in FindInputs : i.path \in {Len(i.fs) - 1, Len(i.fs)}}

\* repo_find(path, required)
RepoFind ==
    /\ last' = [NoOp EXCEPT !.op = "repo_find", !.flag = input.required,
                            !.res = repo_find(input.fs, input.path,
                                              input.required)]
    /\ UNCHANGED <<store, work, input>>

\* GitRepository::new(path, force)
RepoNew(force) ==
    /\ input.path < Len(input.fs)
    /\ last' = [NoOp EXCEPT !.op = "GitRepository::new", !.flag = force,
                            !.res = GitRepository_new(input.fs, input.path,
                                                      force)]
    /\ UNCHANGED <<store, work, input>>

NextFind ==
    \/ RepoFind
    \/ \E force \in BOOLEAN : RepoNew(force)

SpecFind == InitFind /\ [][NextFind]_vars

\* ----------------------------------------------- repo_create: the inputs
\* What may lie at and under the target "d" before the call
CreateDirPool ==
    {Dest, Append(Dest, DotGit), Dest \o <<DotGit, ConfigName>>,
     Append(Dest, PathB)}

CreateFilePool ==
    {Dest, Append(Dest, PathA), Append(Dest, DotGit),
     Dest \o <<DotGit, ConfigName>>, Dest \o <<DotGit, HeadName>>}

CreateTexts(q) ==
    IF q = Dest \o <<DotGit, ConfigName>> THEN {DefaultConfig, BadIni}
    ELSE {Hello}

\* The working directories: every directory has its parent, every file
\* lies in a directory and is not one
CreateStates ==
    {w \in {[dirs |-> D, files |-> f] :
                D \in SUBSET CreateDirPool,
                f \in UNION {[F -> {DefaultConfig, BadIni, Hello}] :
                                 F \in SUBSET CreateFilePool}} :
        /\ \A d \in w.dirs : Prefixes(d) \subseteq w.dirs
        /\ \A q \in DOMAIN w.files :
              /\ q \notin w.dirs
              /\ IsDir(w, SubSeq(q, 1, Len(q) - 1))
              /\ w.files[q] \in CreateTexts(q)}

\* The paths handed to repo_create: "d", and "e/n" under a missing "e"
CreatePaths == {Dest, << <<101>>, <<110>> >>}

InitCreate ==
    /\ store = EmptyStore
    /\ work \in CreateStates
    /\ last = NoOp
    /\ input \in CreatePaths

\* wyag init path
RepoCreate ==
    LET r == repo_create(work, input)
    IN /\ work' = r.work
       /\ last' = [NoOp EXCEPT !.op = "repo_create", !.res = r.res,
                               !.wbefore = work]
       /\ UNCHANGED <<store, input>>

NextCreate == RepoCreate

SpecCreate == InitCreate /\ [][NextCreate]_vars

TypeOK ==
    /\ last.res.tag \in {"Ok", "Err", "Panic", "Hang"}
    /\ store.dirs \subseteq {<<ObjectsName>>} \cup {SubSeq(ObjectPath(n), 1, 2) : n \in Names \cup {DH}}

\* ============================================================ the claims
SameContent(a, b) ==
    /\ a.kind = b.kind
    /\ a.blob_data = b.blob_data
    /\ a.kvlm = b.kvlm
    /\ a.items = b.items

IsWrite == last.op \in {"object_write", "cmd_hash_object"}

\* The path object_write resolves for obj (obj serializes without error)
WritePath(obj) == ObjectPath(Sha1Hex(Frame(Fmt(obj), Serialize(obj).val)))

\* The four kind names, as header bytes
KindNames == {FmtBlob, FmtTree, FmtCommit, FmtTag}

KindOf(fmt) ==
    CASE fmt = FmtBlob -> "blob"
      [] fmt = FmtTree -> "tree"
      [] fmt = FmtCommit -> "commit"
      [] fmt = FmtTag -> "tag"
      [] OTHER -> "unknown"

\* A header `kind SP digits NUL`: the parts of a buffer that has one
HdrSpace(buf) == Position(buf, 0, SP)
HdrNul(buf) == Position(buf, 0, NUL)
HdrKind(buf) == Slice(buf, 0, HdrSpace(buf))
HdrDigits(buf) == Slice(buf, HdrSpace(buf) + 1, HdrNul(buf))
HdrBodyStart(buf) == HdrNul(buf) + 1
HdrBody(buf) == Slice(buf, HdrBodyStart(buf), Len(buf))

WellFormedHeader(buf) ==
    /\ HdrSpace(buf) # None
    /\ HdrNul(buf) # None
    /\ HdrSpace(buf) + 1 < HdrNul(buf)
    /\ \A i \in 1..Len(HdrDigits(buf)) : IsDigit(HdrDigits(buf)[i])

LengthMatches(buf) ==
    DigitsValue(HdrDigits(buf)) = Len(buf) - HdrBodyStart(buf)

CorrectlyFramed(buf) ==
    /\ WellFormedHeader(buf)
    /\ HdrKind(buf) \in KindNames
    /\ buf = Frame(HdrKind(buf), HdrBody(buf))

\* C1: write(o, persist = true) succeeds, and reading the returned digest
\* back yields an object of the same kind with the same content.
C1_WriteReadConsistency ==
    (last.op = "object_write" /\ last.flag) =>
        /\ last.res.tag = "Ok"
        /\ LET r == object_read(store, last.res.val).res
           IN r.tag = "Ok" /\ SameContent(r.val, last.obj)

\* C2: a write with persist = false (hash-object without -w) returns the
\* digest, leaves the store as it was, and the digest is the one the same
\* object gets with persist = true.
C2_DryRunHashing ==
    (IsWrite /\ ~last.flag) =>
        /\ last.res.tag = "Ok"
        /\ store = last.before
        /\ last.res = object_write(last.before, last.obj, TRUE).res

\* C3: a write whose digest already has an object file at its resolved
\* path leaves that file's bytes unchanged.
C3_NoOverwrite ==
    (IsWrite /\ Serialize(last.obj).tag = "Ok"
       /\ IsFile(last.before, WritePath(last.obj))) =>
        /\ IsFile(store, WritePath(last.obj))
        /\ store.files[WritePath(last.obj)]
             = last.before.files[WritePath(last.obj)]

C3_Witness ==
    /\ last.op = "object_write"
    /\ last.flag
    /\ last.obj.repo = "Some"
    /\ Serialize(last.obj).tag = "Ok"
    /\ IsFile(last.before, WritePath(last.obj))
    /\ last.before.files[WritePath(last.obj)] # TodoFixme
    /\ last.res.tag = "Panic"

\* C4: on a buffer with a well-formed header, read passes the length check
\* exactly when the declared length equals len(buffer) - body_start_offset
\* and returns the bad-length error otherwise.
C4_SizeValidation ==
    (last.op = "object_read_decoded" /\ WellFormedHeader(input)) =>
        IF LengthMatches(input)
        THEN \/ last.res.tag = "Ok"
             \/ last.res = Err("Unknown type")
        ELSE last.res = Err("Malformed object, bad length")

\* C5: reading a file that holds the compressed bytes of a correctly framed
\* object returns the variant named by kind, its content decoded from the
\* body.
C5_ReadDecodesStored ==
    (/\ last.op = "object_read"
     /\ IsFile(last.before, ObjectPath(last.sha))
     /\ ZlibInflate(last.before.files[ObjectPath(last.sha)]).tag = "Ok"
     /\ CorrectlyFramed(
            ZlibInflate(last.before.files[ObjectPath(last.sha)]).val)) =>
        LET buf == ZlibInflate(last.before.files[ObjectPath(last.sha)]).val
        IN /\ last.res.tag = "Ok"
           /\ last.res.val.kind = KindOf(HdrKind(buf))
           /\ (last.res.val.kind = "blob" =>
                 last.res.val.blob_data = HdrBody(buf))
           /\ (last.res.val.kind = "commit"
                 /\ kvlm_parse(HdrBody(buf), 0, <<>>).tag = "Ok" =>
                 last.res.val.kvlm = kvlm_parse(HdrBody(buf), 0, <<>>).val)

\* C6: read of a digest with no file at objects/<2 chars>/<rest> returns a
\* not-found error and leaves the store unchanged, also when the
\* two-character subdirectory is missing.
C6_ReadNotFound ==
    (last.op = "object_read" /\ ~IsFile(last.before, ObjectPath(last.sha))) =>
        /\ last.res \in {Err("Failed to create directory path"),
                         Err("Failed to read git object file")}
        /\ store = last.before

C6_Witness ==
    /\ last.op = "object_read"
    /\ ~IsFile(last.before, ObjectPath(last.sha))
    /\ ~IsDir(last.before, SubSeq(ObjectPath(last.sha), 1, 2))
    /\ last.res.tag = "Err"

\* C7: at the dispatch, a kind that is none of blob, tree, commit, tag gives
\* the unknown-kind error, and each of the four names gives its variant.
C7_KindDispatch ==
    (/\ last.op = "object_read_decoded"
     /\ WellFormedHeader(input)
     /\ LengthMatches(input)) =>
        IF HdrKind(input) \in KindNames
        THEN last.res.tag = "Ok"
             /\ last.res.val.kind = KindOf(HdrKind(input))
        ELSE last.res = Err("Unknown type")

\* C8: a parsing failure ends in an Err result: never a panic, and never a
\* success that silently lacks data (a header without its delimiters or
\* with a non-numeric length, a KVLM body with invalid UTF-8).
C8_ParseFailuresAreErrors ==
    /\ last.op \in {"object_read_decoded", "deserialize"} =>
         last.res.tag \in {"Ok", "Err"}
    /\ (last.op = "object_read_decoded" /\ ~WellFormedHeader(input)) =>
         last.res.tag = "Err"
    /\ (last.op = "deserialize" /\ ~Utf8Valid(input)) =>
         last.res.tag = "Err"

\* The store of the malformed graph A -> parent B -> parent A
CycleStore ==
    StoreOf([n \in {DA, DB} |->
               ZlibEncode(Frame(FmtCommit,
                                CommitBody(IF n = DA THEN DB ELSE DA)))])

\* C9: log visits each digest at most once, and on the graph
\* A -> parent B -> parent A started at A it visits A and B, emits the
\* edges (A,B), (B,A) and returns successfully.
C9_LogCycle ==
    last.op = "cmd_log" =>
        /\ \A i, j \in 1..Len(last.seen) :
              last.seen[i] = last.seen[j] => i = j
        /\ (last.before = CycleStore /\ last.sha = DA) =>
              /\ last.res.tag = "Ok"
              /\ last.seen = <<DA, DB>>
              /\ last.out = << <<DA, DB>>, <<DB, DA>> >>

\* C10: for a commit visited first, log emits the edge (current, p) for
\* its parent p and then recurses into p; a root commit emits nothing and
\* ends the walk successfully.
C10_LogEdges ==
    (last.op = "cmd_log" /\ IsFile(last.before, ObjectPath(last.sha))) =>
        LET raw == last.before.files[ObjectPath(last.sha)]
        IN /\ \A p \in Names :
                 raw = ZlibEncode(Frame(FmtCommit, CommitBody(p))) =>
                    /\ Len(last.out) >= 1
                    /\ last.out[1] = <<last.sha, p>>
                    /\ (p # last.sha => Len(last.seen) >= 2
                                        /\ last.seen[2] = p)
           /\ raw = ZlibEncode(Frame(FmtCommit, <<NL, 109>>)) =>
                 last.res.tag = "Ok" /\ last.out = <<>>

\* ---------------------------------------------------- checkout claims
\* The framed bytes git stored under sha, <<>> when there is no such object
StoredBuf(st, sha) ==
    IF /\ IsFile(st, ObjectPath(sha))
       /\ ZlibInflate(st.files[ObjectPath(sha)]).tag = "Ok"
       /\ CorrectlyFramed(ZlibInflate(st.files[ObjectPath(sha)]).val)
    THEN ZlibInflate(st.files[ObjectPath(sha)]).val
    ELSE <<>>

\* The kind of the object stored under sha, "none" when there is none
StoredKind(st, sha) ==
    IF StoredBuf(st, sha) = <<>> THEN "none"
    ELSE KindOf(HdrKind(StoredBuf(st, sha)))

\* The kind of the object a stored commit's `tree` field names
CommitTreeKind(st, sha) ==
    IF \E t \in Names : HdrBody(StoredBuf(st, sha)) = CommitTreeBody(t)
    THEN StoredKind(st, CHOOSE t \in Names :
                           HdrBody(StoredBuf(st, sha)) = CommitTreeBody(t))
    ELSE "none"

\* sha resolves to a Tree, directly or through a commit's `tree` field
ResolvesToTree(st, sha) ==
    \/ StoredKind(st, sha) = "tree"
    \/ StoredKind(st, sha) = "commit" /\ CommitTreeKind(st, sha) = "tree"

StartMismatch ==
    { Err("Expected a tree object or a commit object, got something else"),
      Err("Expected a tree from this commit, but failed to retreive one") }

EntryMismatch ==
    Err("Expected to retrieve a Tree or a Blob, but received some other type instead")

\* C11: checkout uses the Tree a Commit names or the Tree itself; a Blob or
\* Tag start (or a commit whose tree field names a non-Tree) fails with a
\* type-mismatch error and nothing is created.
C11_CheckoutStartKind ==
    last.op = "cmd_checkout" =>
        /\ (\/ StoredKind(last.before, last.sha) \in {"blob", "tag"}
            \/ /\ StoredKind(last.before, last.sha) = "commit"
               /\ CommitTreeKind(last.before, last.sha) \in {"blob", "tag", "commit"})
              => last.res \in StartMismatch /\ work = last.wbefore
        /\ (ResolvesToTree(last.before, last.sha) /\ ~Exists(last.wbefore, Dest))
              => IsDir(work, Dest)

\* C12: with a Tree to check out, checkout proceeds when the destination is
\* absent or an empty directory, and fails leaving it untouched when it is
\* a non-empty directory (not-empty error) or a regular file
\* (not-a-directory error).
C12_CheckoutDestination ==
    (last.op = "cmd_checkout" /\ ResolvesToTree(last.before, last.sha)) =>
        /\ (~Exists(last.wbefore, Dest)
              \/ (IsDir(last.wbefore, Dest) /\ ~HasEntry(last.wbefore, Dest)))
              => /\ IsDir(work, Dest)
                 /\ last.res # Err("Failed to checkout git object: Error creating directory path")
        /\ (IsDir(last.wbefore, Dest) /\ HasEntry(last.wbefore, Dest))
              => /\ last.res = Err("Cannot create Git object directory, supplied path is not empty.")
                 /\ work = last.wbefore
        /\ IsFile(last.wbefore, Dest)
              => /\ last.res = Err("Supplied path was not a directory")
                 /\ work = last.wbefore

\* C13: after a successful checkout of tree T into D, D/path is a
\* directory for an entry referencing a Tree and a file with the blob's
\* body for an entry referencing a Blob, and D holds nothing else; an entry
\* referencing a Commit or Tag makes checkout fail with a type mismatch.
C13_CheckoutMaterializes ==
    (/\ last.op = "cmd_checkout"
     /\ StoredKind(last.before, last.sha) = "tree"
     /\ ~Exists(last.wbefore, Dest)) =>
        \A entries \in StoredTrees :
            HdrBody(StoredBuf(last.before, last.sha)) = TreeBody(entries) =>
               /\ last.res.tag = "Ok" =>
                    /\ \A i \in 1..Len(entries) :
                          LET e == entries[i]
                              k == StoredKind(last.before, e.sha)
                          IN /\ k = "tree" => IsDir(work, Append(Dest, e.path))
                             /\ k = "blob" =>
                                  /\ IsFile(work, Append(Dest, e.path))
                                  /\ work.files[Append(Dest, e.path)]
                                       = HdrBody(StoredBuf(last.before, e.sha))
                    /\ \A q \in work.dirs \cup DOMAIN work.files :
                          Len(q) = 2 =>
                             \E i \in 1..Len(entries) :
                                q = Append(Dest, entries[i].path)
               /\ (StoredKind(last.before, entries[1].sha) \in {"commit", "tag"})
                    => last.res = EntryMismatch

\* Processing this entry alone fails: its path is not UTF-8, or the object
\* it references cannot be read as a Tree or a Blob
EntryFails(st, item) ==
    \/ ~Utf8Valid(item.path)
    \/ object_read(st, item.sha).res.tag # "Ok"
    \/ object_read(st, item.sha).res.val.kind \notin {"tree", "blob"}

EntryError(st, item) ==
    IF ~Utf8Valid(item.path)
    THEN Err("Failed to parse item path tree_checkout.")
    ELSE IF object_read(st, item.sha).res.tag # "Ok"
    THEN object_read(st, item.sha).res
    ELSE EntryMismatch

\* C14: once an entry fails, no later entry is read, created or written,
\* and the error returned is that entry's error.
C14_CheckoutAbortsAtFirstFailure ==
    last.op = "tree_checkout" =>
        \A f \in 1..Len(last.obj.items) :
            (/\ EntryFails(last.before, last.obj.items[f])
             /\ \A j \in 1..(f - 1) : ~EntryFails(last.before, last.obj.items[j]))
            => /\ last.res = EntryError(last.before, last.obj.items[f])
               /\ Len(last.reads) <= f
               /\ \A i \in 1..Len(last.reads) :
                     last.reads[i] = last.obj.items[i].sha
               /\ \A j \in (f + 1)..Len(last.obj.items) :
                     LET q == Append(Dest, last.obj.items[j].path)
                     IN \/ ~Exists(work, q)
                        \/ Exists(last.wbefore, q)
                        \/ \E i \in 1..(f - 1) : last.obj.items[i].path
                                                   = last.obj.items[j].path

C14_Witness ==
    /\ last.op = "tree_checkout"
    /\ Len(last.obj.items) = 2
    /\ EntryFails(last.before, last.obj.items[1])
    /\ Utf8Valid(last.obj.items[1].path)
    /\ IsFile(last.before, ObjectPath(last.obj.items[2].sha))
    /\ last.res.tag = "Err"
    /\ last.reads = <<last.obj.items[1].sha>>

\* ------------------------------------------------------- codec claims
\* C15: for a body of field lines, a blank line and a message, kvlm_parse
\* yields the mapping whose keys are the field keys in first-seen order,
\* each holding the values of all its lines in order, followed by the empty
\* key holding exactly the message.
C15_KvlmParse ==
    (last.op = "kvlm_parse" /\ input.hm \in Docs
        /\ input.raw = KvlmText(input.hm))
        => last.res = Ok(input.hm)

\* C16: for any KVLM document, kvlm_parse(kvlm_serialize(doc)) is the
\* document again, embedded newlines in values included; and for any body
\* that kvlm_parse accepts, serializing the parsed mapping gives the body.
C16_KvlmRoundTrip ==
    /\ (last.op = "kvlm_roundtrip" /\ input.hm \in Docs)
           => last.res = Ok(input.hm)
    /\ (last.op = "kvlm_reserialize" /\ last.res.tag = "Ok")
           => last.res.val = input.raw

\* Valid tree entries: a mode of 5 or 6 digits, a NUL-free path, the 40 hex
\* digits of a 20-byte digest
ValidEntries(items) ==
    /\ items # <<>>
    /\ \A i \in 1..Len(items) :
          /\ Len(items[i].mode) \in {5, 6}
          /\ \A j \in 1..Len(items[i].mode) : IsDigit(items[i].mode[j])
          /\ \A j \in 1..Len(items[i].path) : items[i].path[j] # NUL
          /\ Len(items[i].sha) = 2 * RawDigestLen

\* C17: for a non-empty sequence of valid tree entries, decoding the
\* encoding succeeds and gives the entries in their order, and the encoding
\* is, per entry, mode SP path NUL and the 20 raw bytes of the digest.
C17_TreeRoundTrip ==
    (last.op = "tree_roundtrip" /\ ValidEntries(input.items))
        => /\ last.res = Ok(input.items)
           /\ last.out = TreeBody(input.items)

\* What the Commit codec does on the same input
CommitDeserialized == Deserialize(GitCommit_new("None", <<>>), input.raw)
CommitSerialized ==
    Serialize([GitCommit_new("None", <<>>) EXCEPT !.kvlm = input.hm])

\* C18: a Tag has the codec of a Commit: deserialize succeeds on exactly
\* the bodies Commit deserialize succeeds on and yields the same mapping,
\* serialize gives the bytes Commit serialize gives for the mapping, and no
\* key is required.
C18_TagCodecIsCommitCodec ==
    /\ (last.op = "codec_deserialize" /\ last.obj.kind = "tag")
           => /\ (last.res.tag = "Ok") = (CommitDeserialized.tag = "Ok")
              /\ last.res.tag = "Ok"
                     => last.res.val.kvlm = CommitDeserialized.val.kvlm
    /\ (last.op = "codec_serialize" /\ last.obj.kind = "tag"
            /\ input.hm \in Docs)
           => last.res = CommitSerialized

\* --------------------------------------------------- repo_find claims
\* The directories at or above the start that hold a `.git` directory
GitLevels == {l \in 0..input.path : git_is_dir(input.fs, l)}

Nearest == CHOOSE l \in GitLevels : \A m \in GitLevels : m <= l

StartExists == input.path < Len(input.fs)

\* C19: when the start or one of its ancestors holds a `.git` directory
\* with a valid config, repo_find returns the repository of the nearest
\* such directory.
C19_RepoFindNearest ==
    (last.op = "repo_find" /\ StartExists /\ GitLevels # {}
        /\ GitOf(input.fs, Nearest) = "v0")
        => last.res = Ok(Repo(Nearest))

\* C20: when neither the start nor any ancestor holds a `.git` directory,
\* repo_find returns: Ok(None) when required is false, the error "Failed
\* to find a repository" when required is true.
C20_RepoFindTerminates ==
    (last.op = "repo_find" /\ StartExists /\ GitLevels = {})
        => last.res = IF input.required
                      THEN Err("Failed to find a repository")
                      ELSE Ok(NoRepo)

\* -------------------------------------------------- repo_create claims
\* The config file of the repository at the target
TargetConfig == input \o <<DotGit, ConfigName>>

\* What lay under the target before the call
Under(wk, p) ==
    {q \in wk.dirs \cup DOMAIN wk.files :
        Len(q) > Len(p) /\ SubSeq(q, 1, Len(p)) = p}

TargetOccupied ==
    input \in DOMAIN last.wbefore.files
        \/ (input \in last.wbefore.dirs /\ Under(last.wbefore, input) # {})

\* C21: repo_create on a path that is a regular file or a directory with
\* an entry returns Err and creates nothing; on a path that is absent or an
\* empty directory it returns Ok and .git/config exists and is not empty.
C21_RepoCreateRefusesNonEmpty ==
    last.op = "repo_create" =>
        IF TargetOccupied
        THEN last.res.tag = "Err" /\ work = last.wbefore
        ELSE /\ last.res.tag = "Ok"
             /\ IsFile(work, TargetConfig)
             /\ work.files[TargetConfig] # <<>>

\* repo_create has refused a directory that holds an entry
C21_Witness ==
    /\ last.op = "repo_create"
    /\ input \in last.wbefore.dirs
    /\ Under(last.wbefore, input) # {}
    /\ last.res.tag = "Err"
    /\ work = last.wbefore

\* ------------------------------------------------------ framing claims
\* kind || ' ' || decimal(len(body)) || 0x00 || body
FramedBytes(kind, body) ==
    kind \o <<SP>> \o ToDecimal(Len(body)) \o <<NUL>> \o body

\* The objects with the kind and the serialized body of the written one
SameKindAndBody ==
    {o \in WriteObjects :
        Fmt(o) = Fmt(last.obj) /\ Serialize(o) = Serialize(last.obj)}

\* C22: a write hashes exactly kind, space, the decimal length of the
\* serialized body, NUL and the body, so it returns the digest of those
\* bytes, and every write of an object with the same kind and serialized
\* body returns that same digest, whatever persist and the store are.
C22_FramingAndContentAddressing ==
    (last.op = "object_write" /\ Serialize(last.obj).tag = "Ok") =>
        /\ last.res
             = Ok(Sha1Hex(FramedBytes(Fmt(last.obj), Serialize(last.obj).val)))
        /\ \A o \in SameKindAndBody, persist \in BOOLEAN :
              object_write(store, o, persist).res = last.res

\* ------------------------------------------------- kvlm layout claims
\* `key SP value NL` for every value of every key but the message key, a
\* newline inside a value followed by a space
RECURSIVE FieldLines(_)
FieldLines(hm) ==
    IF hm = <<>> THEN <<>>
    ELSE (IF hm[1].k = KeyMessage THEN <<>>
          ELSE KvlmLines(hm[1].k, hm[1].v)) \o FieldLines(Tail(hm))

MessageOf(hm) ==
    hm[CHOOSE i \in 1..Len(hm) : hm[i].k = KeyMessage].v[1]

\* C23: kvlm_serialize emits, for each key in order other than the message
\* key and each of its values in order, key SP value NEWLINE with the
\* newlines of the value followed by a space, then one blank line, then the
\* message verbatim.
C23_KvlmSerializeLayout ==
    (last.op = "kvlm_roundtrip" /\ input.hm \in Docs) =>
        last.out = FieldLines(input.hm) \o <<NL>> \o MessageOf(input.hm)

\* C24: the empty KVLM body parses, without abort, to the mapping with no
\* key; a body that is a blank line and a message parses to the mapping
\* with the message key only; the empty tree body decodes to no entries.
C24_DegenerateBodies ==
    /\ (last.op = "kvlm_parse" /\ input.raw = <<>>) => last.res = Ok(<<>>)
    /\ (last.op = "kvlm_parse" /\ input.hm \in Docs /\ Len(input.hm) = 1
            /\ input.raw = <<NL>> \o MessageOf(input.hm))
           => last.res = Ok(input.hm)
    /\ (last.op = "tree_parse" /\ input.raw = <<>>) => last.res = Ok(<<>>)

\* -------------------------------------------------- tree decode claims
\* The body of entries as git lays it out was decoded
DecodedBody ==
    /\ last.op = "tree_parse"
    /\ input.items # <<>>
    /\ input.raw = TreeBody(input.items)

ModeLengthOk(e) == Len(e.mode) \in {5, 6}

\* C25: the mode of every entry, at whatever position it starts, is
\* accepted when it is 5 or 6 bytes long, and a mode of any other length
\* makes the decode return an error value.
C25_TreeModeLength ==
    DecodedBody =>
        IF \A i \in 1..Len(input.items) : ModeLengthOk(input.items[i])
        THEN /\ last.res.tag = "Ok"
             /\ Len(last.res.val) = Len(input.items)
             /\ \A i \in 1..Len(input.items) :
                   last.res.val[i].mode = input.items[i].mode
        ELSE last.res.tag = "Err"

\* The index 20 bytes past the NUL of entry i: where entry i + 1 starts
RECURSIVE EntryEnd(_, _)
EntryEnd(items, i) ==
    IF i = 0 THEN 0
    ELSE EntryEnd(items, i - 1) + Len(items[i].mode) + 1
         + Len(items[i].path) + 1 + RawDigestLen

CutShort ==
    /\ last.op = "tree_parse"
    /\ input.items # <<>>
    /\ Len(input.raw) < Len(TreeBody(input.items))
    /\ input.raw = SubSeq(TreeBody(input.items), 1, Len(input.raw))

\* C26: after each entry the cursor is 20 bytes past that entry's NUL, it
\* strictly increases, the decode stops when it equals the body length,
\* and a body that ends inside an entry yields an error value.
C26_TreeCursor ==
    /\ (DecodedBody
          /\ \A i \in 1..Len(input.items) : ModeLengthOk(input.items[i]))
        => /\ last.seen
                = [i \in 1..Len(input.items) |-> EntryEnd(input.items, i)]
           /\ \A i \in 1..(Len(last.seen) - 1) : last.seen[i] < last.seen[i + 1]
           /\ last.seen[Len(last.seen)] = Len(input.raw)
           /\ last.res.tag = "Ok"
    /\ CutShort => last.res.tag = "Err"

\* C27: the digest string of a decoded entry is the 40 lowercase hex
\* digits of the entry's 20 raw bytes, leading zeros kept, and computing it
\* never overflows; so the strings of distinct raw digests differ.
C27_TreeDigestText ==
    (DecodedBody /\ Len(input.items) = 1 /\ ModeLengthOk(input.items[1])) =>
        /\ last.res.tag = "Ok"
        /\ Len(last.res.val[1].sha) = 2 * RawDigestLen
        /\ last.res.val[1].sha = input.items[1].sha

====
